---- MODULE Spec2Model ----
(***************************************************************************)
(* Model of src/src/06-objects-tasks.js: the Rectangle factory and the     *)
(* cssSelectorBuilder object.                                              *)
(*                                                                         *)
(* JavaScript strings are modelled as sequences of one-character strings,  *)
(* so that `a + b` and template literals are sequence concatenation.       *)
(* JavaScript objects live in `heap`, a sequence of records; an object     *)
(* reference is its index.  heap[Facade] is the module-level               *)
(* cssSelectorBuilder object; every `{ ...this }` appends a new record.    *)
(***************************************************************************)
EXTENDS Integers, Sequences, FiniteSets, TLC

VARIABLES
    heap,   \* the builder objects; heap[1] is cssSelectorBuilder itself
    hist,   \* history of each object: how it was derived (observation only)
    args,   \* the arguments of the last Rectangle(width, height) call
    rect,   \* the object that call returned
    area    \* what the last rect.getArea() call returned, if one was made

vars == <<heap, hist, args, rect, area>>

----------------------------------------------------------------------------
(* Bounds of the model *)

\* objects that may be created besides the facade
MaxObjs == 3
\* Rectangle sides range over -MaxSide..MaxSide
MaxSide == 5

\* the strings passed as `value`
Values == { <<"t", "d">> }
\* the strings passed as `combinator`
Combinators == { <<"+">> }

Sides == (0 - MaxSide)..MaxSide

----------------------------------------------------------------------------
(* Rectangle *)

Rectangle(width, height) == [width |-> width, height |-> height]

\* a wrong getArea: the sides added instead of multiplied
getAreaSum(this) == this.width + this.height

getArea(this) == this.width * this.height

----------------------------------------------------------------------------
(* cssSelectorBuilder: fields *)

Facade == 1

rightOrder ==
    <<"element", "id", "class", "attribute", "pseudo-class", "pseudo-element">>

cssSelectorBuilder ==
    [ result |-> << >>,
      isSelectorHaveElement |-> FALSE,
      isSelectorHaveId |-> FALSE,
      isSelectorHavePseudoElement |-> FALSE,
      currentOrder |-> << >> ]

OrderError ==
    "Selector parts should be arranged in the following order: element, id, class, attribute, pseudo-class, pseudo-element"

UniqueError ==
    "Element, id and pseudo-element should not occur more then one time inside the selector"

NoError == "none"

(* Array.prototype helpers, with JavaScript's 0-based indices *)
indexOf(arr, x) ==
    IF \E i \in 1..Len(arr) : arr[i] = x
    THEN (CHOOSE i \in 1..Len(arr) :
              arr[i] = x /\ \A j \in 1..(i - 1) : arr[j] # x) - 1
    ELSE 0 - 1

slice(arr, start) == SubSeq(arr, start + 1, Len(arr))

includes(arr, x) == \E i \in 1..Len(arr) : arr[i] = x

(* what a method call does: the heap after it, the value returned, the     *)
(* message of the Error thrown (NoError when it returns)                   *)
Return(h, v) == [heap |-> h, ret |-> v, err |-> NoError]

Throw(h, msg) == [heap |-> h, ret |-> << >>, err |-> msg]

----------------------------------------------------------------------------
(* cssSelectorBuilder: methods.  `h` is the heap, `this` the receiver.     *)

\* a wrong isOrderRight: the pattern starts one kind too late
isOrderRightSkipNext(this, currentSelector) ==
    LET patternArr == slice(rightOrder, indexOf(rightOrder, currentSelector) + 2)
        \* this.currentOrder.some((sel) => patternArr.includes(sel))
        some == \E i \in 1..Len(this.currentOrder) :
                    includes(patternArr, this.currentOrder[i])
    IN  IF some THEN FALSE ELSE TRUE

isOrderRight(this, currentSelector) ==
    LET patternArr == slice(rightOrder, indexOf(rightOrder, currentSelector) + 1)
        \* this.currentOrder.some((sel) => patternArr.includes(sel))
        some == \E i \in 1..Len(this.currentOrder) :
                    includes(patternArr, this.currentOrder[i])
    IN  IF some THEN FALSE ELSE TRUE

\* a wrong element: the uniqueness check left out
elementNoUnique(h, this, value) ==
    IF ~isOrderRight(h[this], "element") THEN Throw(h, OrderError)
    ELSE LET copyObj == [h[this] EXCEPT
                 !.result = @ \o value,
                 !.isSelectorHaveElement = TRUE,
                 !.currentOrder = @ \o <<"element">>]
         IN  Return(Append(h, copyObj), Len(h) + 1)

\* a wrong element: the receiver is marked before the order is checked
elementMarkFirst(h, this, value) ==
    IF h[this].isSelectorHaveElement THEN Throw(h, UniqueError)
    ELSE LET marked == [h EXCEPT ![this].isSelectorHaveElement = TRUE]
         IN  IF ~isOrderRight(h[this], "element") THEN Throw(marked, OrderError)
             ELSE LET copyObj == [h[this] EXCEPT
                          !.result = @ \o value,
                          !.isSelectorHaveElement = TRUE,
                          !.currentOrder = @ \o <<"element">>]
                  IN  Return(Append(h, copyObj), Len(h) + 1)

element(h, this, value) ==
    IF ~isOrderRight(h[this], "element") THEN Throw(h, OrderError)
    ELSE IF h[this].isSelectorHaveElement THEN Throw(h, UniqueError)
    ELSE LET copyObj == [h[this] EXCEPT
                 !.result = @ \o value,
                 !.isSelectorHaveElement = TRUE,
                 !.currentOrder = @ \o <<"element">>]
         IN  Return(Append(h, copyObj), Len(h) + 1)

\* a wrong id: the uniqueness check left out
idNoUnique(h, this, value) ==
    IF ~isOrderRight(h[this], "id") THEN Throw(h, OrderError)
    ELSE LET copyObj == [h[this] EXCEPT
                 !.result = @ \o (<<"#">> \o value),
                 !.isSelectorHaveId = TRUE,
                 !.currentOrder = @ \o <<"id">>]
         IN  Return(Append(h, copyObj), Len(h) + 1)

id(h, this, value) ==
    IF ~isOrderRight(h[this], "id") THEN Throw(h, OrderError)
    ELSE IF h[this].isSelectorHaveId THEN Throw(h, UniqueError)
    ELSE LET copyObj == [h[this] EXCEPT
                 !.result = @ \o (<<"#">> \o value),
                 !.isSelectorHaveId = TRUE,
                 !.currentOrder = @ \o <<"id">>]
         IN  Return(Append(h, copyObj), Len(h) + 1)

\* a wrong class: the receiver is changed and returned, no copy made
classInPlace(h, this, value) ==
    IF ~isOrderRight(h[this], "class") THEN Throw(h, OrderError)
    ELSE LET copyObj == [h[this] EXCEPT
                 !.result = @ \o (<<".">> \o value),
                 !.currentOrder = @ \o <<"class">>]
         IN  Return([h EXCEPT ![this] = copyObj], this)

class(h, this, value) ==
    IF ~isOrderRight(h[this], "class") THEN Throw(h, OrderError)
    ELSE LET copyObj == [h[this] EXCEPT
                 !.result = @ \o (<<".">> \o value),
                 !.currentOrder = @ \o <<"class">>]
         IN  Return(Append(h, copyObj), Len(h) + 1)

attr(h, this, value) ==
    IF ~isOrderRight(h[this], "attribute") THEN Throw(h, OrderError)
    ELSE LET copyObj == [h[this] EXCEPT
                 !.result = @ \o (<<"[">> \o value \o <<"]">>),
                 !.currentOrder = @ \o <<"attribute">>]
         IN  Return(Append(h, copyObj), Len(h) + 1)

pseudoClass(h, this, value) ==
    IF ~isOrderRight(h[this], "pseudo-class") THEN Throw(h, OrderError)
    ELSE LET copyObj == [h[this] EXCEPT
                 !.result = @ \o (<<":">> \o value),
                 !.currentOrder = @ \o <<"pseudo-class">>]
         IN  Return(Append(h, copyObj), Len(h) + 1)

pseudoElement(h, this, value) ==
    IF ~isOrderRight(h[this], "pseudo-element") THEN Throw(h, OrderError)
    ELSE IF h[this].isSelectorHavePseudoElement THEN Throw(h, UniqueError)
    ELSE LET copyObj == [h[this] EXCEPT
                 !.result = @ \o (<<":", ":">> \o value),
                 !.isSelectorHavePseudoElement = TRUE,
                 !.currentOrder = @ \o <<"pseudo-element">>]
         IN  Return(Append(h, copyObj), Len(h) + 1)

\* a wrong stringify: result is read after it was cleared
stringifyCleared(h, this) ==
    LET cleared == [h EXCEPT ![this].result = << >>,
                             ![this].currentOrder = << >>]
    IN  Return(cleared, cleared[this].result)

\* a wrong stringify: the module-level object is cleared, not the receiver
stringifyTemplate(h, this) ==
    LET shouldReturn == h[this].result
    IN  Return([h EXCEPT ![Facade].result = << >>,
                         ![Facade].currentOrder = << >>],
               shouldReturn)

\* a wrong stringify: result and currentOrder are cleared in every object,
\* as if the copies shared them
stringifyShared(h, this) ==
    LET shouldReturn == h[this].result
    IN  Return([o \in DOMAIN h |->
                    [h[o] EXCEPT !.result = << >>, !.currentOrder = << >>]],
               shouldReturn)

\* a different stringify: the three flags are cleared as well
stringifyAll(h, this) ==
    LET shouldReturn == h[this].result
    IN  Return([h EXCEPT ![this].result = << >>,
                         ![this].currentOrder = << >>,
                         ![this].isSelectorHaveElement = FALSE,
                         ![this].isSelectorHaveId = FALSE,
                         ![this].isSelectorHavePseudoElement = FALSE],
               shouldReturn)

stringify(h, this) ==
    LET shouldReturn == h[this].result
    IN  Return([h EXCEPT ![this].result = << >>,
                         ![this].currentOrder = << >>],
               shouldReturn)

\* a wrong combine: the text is stored in the receiver, no copy made
combineInPlace(h, this, selector1, combinator, selector2) ==
    LET s1 == stringify(h, selector1)
        s2 == stringify(s1.heap, selector2)
        text == s1.ret \o <<" ">> \o combinator \o <<" ">> \o s2.ret
    IN  Return([s2.heap EXCEPT ![this].result = text], this)

\* a wrong combine: the copy is made of selector1, not of the receiver
combineFromLeft(h, this, selector1, combinator, selector2) ==
    LET copyObj == h[selector1]
        s1 == stringify(h, selector1)
        s2 == stringify(s1.heap, selector2)
        text == s1.ret \o <<" ">> \o combinator \o <<" ">> \o s2.ret
    IN  Return(Append(s2.heap, [copyObj EXCEPT !.result = text]),
               Len(h) + 1)

\* a wrong combine: the operands' result is read, the operands not rendered
combineNoRender(h, this, selector1, combinator, selector2) ==
    LET copyObj == h[this]
        text == h[selector1].result \o <<" ">> \o combinator \o <<" ">>
                    \o h[selector2].result
    IN  Return(Append(h, [copyObj EXCEPT !.result = text]), Len(h) + 1)

combine(h, this, selector1, combinator, selector2) ==
    LET copyObj == h[this]
        s1 == stringify(h, selector1)
        s2 == stringify(s1.heap, selector2)
        text == s1.ret \o <<" ">> \o combinator \o <<" ">> \o s2.ret
    IN  Return(Append(s2.heap, [copyObj EXCEPT !.result = text]),
               Len(h) + 1)

----------------------------------------------------------------------------
(* History kept beside each object, for stating properties of call chains: *)
(* `fresh` holds of the facade and of every object reached from it by      *)
(* fragment calls alone and not rendered since; `chain` is then the        *)
(* sequence of <<kind, value>> calls that built it.                        *)

Born == [fresh |-> TRUE, chain |-> << >>]

Spent == [fresh |-> FALSE, chain |-> << >>]

Derived(parent, kind, value) ==
    IF parent.fresh
    THEN [fresh |-> TRUE, chain |-> Append(parent.chain, <<kind, value>>)]
    ELSE Spent

Rendered(hs, this) ==
    IF this = Facade THEN hs ELSE [hs EXCEPT ![this] = Spent]

NotCalled == [called |-> FALSE, value |-> 0]

Init ==
    /\ heap = <<cssSelectorBuilder>>
    /\ hist = <<Born>>
    /\ args = <<0, 0>>
    /\ rect = Rectangle(0, 0)
    /\ area = NotCalled

----------------------------------------------------------------------------
(* Calls on the builder.  A call that returns a new object needs room in   *)
(* the heap; a call that throws can always be made.                        *)

Room == Len(heap) <= MaxObjs

FragmentCall(kind, r, this, value) ==
    /\ r.err = NoError => Room
    /\ heap' = r.heap
    /\ hist' = IF Len(r.heap) = Len(heap) + 1
               THEN Append(hist, Derived(hist[this], kind, value))
               ELSE hist
    /\ UNCHANGED <<args, rect, area>>

Element ==
    \E this \in DOMAIN heap, value \in Values :
        FragmentCall("element", element(heap, this, value), this, value)

Id ==
    \E this \in DOMAIN heap, value \in Values :
        FragmentCall("id", id(heap, this, value), this, value)

Class ==
    \E this \in DOMAIN heap, value \in Values :
        FragmentCall("class", class(heap, this, value), this, value)

Attr ==
    \E this \in DOMAIN heap, value \in Values :
        FragmentCall("attribute", attr(heap, this, value), this, value)

PseudoClass ==
    \E this \in DOMAIN heap, value \in Values :
        FragmentCall("pseudo-class", pseudoClass(heap, this, value), this, value)

PseudoElement ==
    \E this \in DOMAIN heap, value \in Values :
        FragmentCall("pseudo-element", pseudoElement(heap, this, value), this, value)

Combine ==
    \E this \in DOMAIN heap, selector1 \in DOMAIN heap,
       combinator \in Combinators, selector2 \in DOMAIN heap :
        LET r == combine(heap, this, selector1, combinator, selector2)
            hs == Rendered(Rendered(hist, selector1), selector2)
        IN  /\ Room
            /\ heap' = r.heap
            /\ hist' = IF Len(r.heap) = Len(heap) + 1 THEN Append(hs, Spent) ELSE hs
            /\ UNCHANGED <<args, rect, area>>

Stringify ==
    \E this \in DOMAIN heap :
        /\ heap' = stringify(heap, this).heap
        /\ hist' = Rendered(hist, this)
        /\ UNCHANGED <<args, rect, area>>

Next ==
    \/ Element
    \/ Id
    \/ Class
    \/ Attr
    \/ PseudoClass
    \/ PseudoElement
    \/ Combine
    \/ Stringify

Spec == Init /\ [][Next]_vars

(* The documented use, "cssSelectorBuilder should be used as facade": the  *)
(* fragment methods chain on any value, combine is called on the facade.   *)
CombineOnFacade ==
    \E selector1 \in DOMAIN heap, combinator \in Combinators,
       selector2 \in DOMAIN heap :
        LET r == combine(heap, Facade, selector1, combinator, selector2)
            hs == Rendered(Rendered(hist, selector1), selector2)
        IN  /\ Room
            /\ heap' = r.heap
            /\ hist' = IF Len(r.heap) = Len(heap) + 1 THEN Append(hs, Spent) ELSE hs
            /\ UNCHANGED <<args, rect, area>>

NextFacade ==
    \/ Element
    \/ Id
    \/ Class
    \/ Attr
    \/ PseudoClass
    \/ PseudoElement
    \/ CombineOnFacade
    \/ Stringify

SpecFacade == Init /\ [][NextFacade]_vars

----------------------------------------------------------------------------
(* Calls on Rectangle *)

NewRectangle ==
    \E width \in Sides, height \in Sides :
        /\ args' = <<width, height>>
        /\ rect' = Rectangle(width, height)
        /\ area' = NotCalled
        /\ UNCHANGED <<heap, hist>>

GetArea ==
    /\ area' = [called |-> TRUE, value |-> getArea(rect)]
    /\ UNCHANGED <<heap, hist, args, rect>>

NextRect ==
    \/ NewRectangle
    \/ GetArea

SpecRect == Init /\ [][NextRect]_vars

----------------------------------------------------------------------------
(* Vocabulary of the properties: the fragment kinds, their rank, the       *)
(* rendered form of a fragment and of a chain of <<kind, value>> calls.    *)

Kinds ==
    {"element", "id", "class", "attribute", "pseudo-class", "pseudo-element"}

Once == {"element", "id", "pseudo-element"}

Rank(kind) ==
    CASE kind = "element" -> 1
      [] kind = "id" -> 2
      [] kind = "class" -> 3
      [] kind = "attribute" -> 4
      [] kind = "pseudo-class" -> 5
      [] kind = "pseudo-element" -> 6

Form(kind, value) ==
    CASE kind = "element" -> value
      [] kind = "id" -> <<"#">> \o value
      [] kind = "class" -> <<".">> \o value
      [] kind = "attribute" -> <<"[">> \o value \o <<"]">>
      [] kind = "pseudo-class" -> <<":">> \o value
      [] kind = "pseudo-element" -> <<":", ":">> \o value

RECURSIVE Render(_)
Render(chain) ==
    IF chain = << >> THEN << >>
    ELSE Form(Head(chain)[1], Head(chain)[2]) \o Render(Tail(chain))

KindsOf(chain) == [i \in 1..Len(chain) |-> chain[i][1]]

NonDecreasing(kinds) ==
    \A i, j \in 1..Len(kinds) : i < j => Rank(kinds[i]) <= Rank(kinds[j])

AtMostOnce(kinds) ==
    \A k \in Once : Cardinality({i \in 1..Len(kinds) : kinds[i] = k}) <= 1

ValidOrder(kinds) == NonDecreasing(kinds) /\ AtMostOnce(kinds)

Fresh == {o \in DOMAIN heap : hist[o].fresh}

\* the value of receiver.<method of this kind>(value)
Call(kind, h, this, value) ==
    CASE kind = "element" -> element(h, this, value)
      [] kind = "id" -> id(h, this, value)
      [] kind = "class" -> class(h, this, value)
      [] kind = "attribute" -> attr(h, this, value)
      [] kind = "pseudo-class" -> pseudoClass(h, this, value)
      [] kind = "pseudo-element" -> pseudoElement(h, this, value)

Space == <<" ">>

----------------------------------------------------------------------------
(* C1: every chain of fragment calls started on the facade whose kinds are *)
(* in non-decreasing rank, with element, id and pseudo-element at most     *)
(* once, is built without a throw (each further call that keeps the chain  *)
(* valid returns), and stringify() on its last value returns the           *)
(* concatenation of the fragments' rendered forms in call order.           *)
C1_ValidChainRenders ==
    \A o \in Fresh :
        /\ stringify(heap, o).ret = Render(hist[o].chain)
        /\ stringify(heap, o).err = NoError
        /\ \A kind \in Kinds, value \in Values :
               ValidOrder(Append(KindsOf(hist[o].chain), kind))
                   => Call(kind, heap, o, value).err = NoError

C1_Witness ==
    \E o \in Fresh :
        /\ KindsOf(hist[o].chain) = <<"id", "class", "class">>
        /\ stringify(heap, o).ret = <<"#", "t", "d", ".", "t", "d", ".", "t", "d">>

(* C2: on a value of a chain started from the facade that already carries  *)
(* a fragment of a kind ranked higher than K, the fragment call of kind K  *)
(* throws the order error and yields no builder value.                     *)
C2_OutOfOrderThrows ==
    \A o \in Fresh, kind \in Kinds, value \in Values :
        (\E i \in 1..Len(hist[o].chain) : Rank(hist[o].chain[i][1]) > Rank(kind))
            => LET r == Call(kind, heap, o, value)
               IN  /\ r.err = OrderError
                   /\ r.heap = heap
                   /\ r.ret = << >>

C2_Witness ==
    \E o \in Fresh :
        /\ KindsOf(hist[o].chain) = <<"class", "pseudo-element">>
        /\ id(heap, o, <<"t", "d">>).err = OrderError
        /\ element(heap, o, <<"t", "d">>).err = OrderError

(* C3, as stated: in a chain started from the facade a second element()    *)
(* fails with the uniqueness error whatever was called in between; the     *)
(* same for a second id() and a second pseudoElement().                    *)
C3_SecondAlwaysUnique ==
    \A o \in Fresh, kind \in Once, value \in Values :
        (\E i \in 1..Len(hist[o].chain) : hist[o].chain[i][1] = kind)
            => Call(kind, heap, o, value).err = UniqueError

(* C3, amended: a second element() (id(), pseudoElement()) in a chain      *)
(* started from the facade always fails and yields no value; it fails with *)
(* the uniqueness error when no fragment was added since the first call of *)
(* that kind, and with the order error when one was.                       *)
C3_SecondFails ==
    \A o \in Fresh, kind \in Once, value \in Values :
        LET chain == hist[o].chain
            r == Call(kind, heap, o, value)
        IN  (\E i \in 1..Len(chain) : chain[i][1] = kind)
                => /\ r.heap = heap /\ r.ret = << >>
                   /\ r.err = IF chain[Len(chain)][1] = kind
                              THEN UniqueError ELSE OrderError

C3_Witness ==
    \E o, p \in Fresh :
        /\ KindsOf(hist[o].chain) = <<"element", "class">>
        /\ element(heap, o, <<"t", "d">>).err = OrderError
        /\ KindsOf(hist[p].chain) = <<"element">>
        /\ element(heap, p, <<"t", "d">>).err = UniqueError

(* C4, as stated: for all builder values left and right, the same value    *)
(* included, and every combinator c, combine(left, c, right).stringify()   *)
(* returns left's text, a space, c, a space, right's text.                 *)
C4_CombineJoinsTexts ==
    \A this \in DOMAIN heap, left \in DOMAIN heap, right \in DOMAIN heap,
       c \in Combinators :
        LET r == combine(heap, this, left, c, right)
        IN  stringify(r.heap, r.ret).ret
                = heap[left].result \o Space \o c \o Space \o heap[right].result

(* C5, as stated: after stringify() the value it was called on is in the   *)
(* state of a newly born builder: empty text, empty currentOrder and the   *)
(* three flags false.                                                      *)
C5_StringifyResetsAll ==
    \A o \in DOMAIN heap :
        stringify(heap, o).heap[o] = cssSelectorBuilder

(* C6: whatever fragment, combine and stringify calls were made, on the    *)
(* facade or on values derived from it, the facade object is still empty   *)
(* (result '', currentOrder [], the three flags false), so a fragment call *)
(* on it returns what it returns on the facade before any call was made.   *)
C6_FacadeStaysEmpty ==
    /\ heap[Facade] = cssSelectorBuilder
    /\ \A kind \in Kinds, value \in Values :
           LET r == Call(kind, heap, Facade, value)
               first == Call(kind, <<cssSelectorBuilder>>, Facade, value)
           IN  /\ r.err = NoError
               /\ r.heap[r.ret] = first.heap[first.ret]

C6_Witness ==
    /\ heap[Facade] = cssSelectorBuilder
    /\ \E o, c \in DOMAIN heap :
           /\ o # Facade /\ ~hist[o].fresh /\ heap[o].isSelectorHaveElement
           /\ heap[o].result = << >>
           /\ heap[c].result = <<"t", "d", " ", "+", " ">>

(* C7: a fragment call that returns gives a new object and leaves the      *)
(* receiver, and every other object, as it was.                            *)
C7_FragmentCopies ==
    \A this \in DOMAIN heap, kind \in Kinds, value \in Values :
        LET r == Call(kind, heap, this, value)
        IN  r.err = NoError
                => /\ r.ret \notin DOMAIN heap
                   /\ DOMAIN r.heap = DOMAIN heap \cup {r.ret}
                   /\ \A o \in DOMAIN heap : r.heap[o] = heap[o]
                   /\ r.heap[r.ret].result = heap[this].result \o Form(kind, value)

C7_Witness ==
    \E p, a, b \in Fresh :
        /\ KindsOf(hist[p].chain) = <<"element">>
        /\ KindsOf(hist[a].chain) = <<"element", "id">>
        /\ KindsOf(hist[b].chain) = <<"element", "class">>
        /\ heap[p].result = <<"t", "d">>
        /\ heap[a].result = <<"t", "d", "#", "t", "d">>
        /\ heap[b].result = <<"t", "d", ".", "t", "d">>

(* C8: a fragment call that throws throws the order error or the           *)
(* uniqueness error, produces no value, and leaves every object as it was. *)
C8_ThrowChangesNothing ==
    \A this \in DOMAIN heap, kind \in Kinds, value \in Values :
        LET r == Call(kind, heap, this, value)
        IN  r.err # NoError
                => /\ r.err \in {OrderError, UniqueError}
                   /\ r.ret = << >>
                   /\ r.heap = heap

C8_Witness ==
    \E o \in DOMAIN heap :
        /\ heap[o].currentOrder = <<"id", "class">>
        /\ id(heap, o, <<"t", "d">>).err = OrderError
        /\ \E u \in DOMAIN heap :
               pseudoElement(heap, u, <<"t", "d">>).err = UniqueError

(* C10: in every reachable state every builder object's currentOrder is in *)
(* non-decreasing rank order and holds 'element', 'id' and                 *)
(* 'pseudo-element' at most once.                                          *)
C10_CurrentOrderValid ==
    \A o \in DOMAIN heap : ValidOrder(heap[o].currentOrder)

C10_Witness ==
    \E o \in DOMAIN heap :
        /\ ~hist[o].fresh
        /\ heap[o].currentOrder = <<"id", "class">>
        /\ heap[o].isSelectorHaveElement

----------------------------------------------------------------------------
(* C9: for all integers w, h in the range, Rectangle(w, h) returns an      *)
(* object with width = w and height = h, and its getArea() returns w * h.  *)
C9_RectangleArea ==
    /\ rect.width = args[1]
    /\ rect.height = args[2]
    /\ area.called => area.value = args[1] * args[2]

C9_Witness ==
    /\ args = <<4, 0 - 5>>
    /\ area.called
    /\ area.value = 0 - 20

----------------------------------------------------------------------------
\* the receiver as stringify() leaves it
Cleared(obj) == [obj EXCEPT !.result = << >>, !.currentOrder = << >>]

\* what a fragment call gives on a heap that holds the receiver alone
Alone(kind, obj, value) == Call(kind, <<obj>>, 1, value)

\* a fragment call depends on the receiver's fields and the value alone
FragmentsPure ==
    \A o \in DOMAIN heap, kind \in Kinds, value \in Values :
        \A r \in {Call(kind, heap, o, value)},
           a \in {Alone(kind, heap[o], value)} :
            /\ r.err = a.err
            /\ r.err = NoError => r.heap[r.ret] = a.heap[a.ret]

(* C11, as stated: stringify() called on a builder value other than the    *)
(* facade does not modify that value (its text and bookkeeping are as      *)
(* before), and fragment calls are pure functions of the receiver's state  *)
(* and the value.                                                          *)
C11_StringifyKeepsReceiver ==
    /\ \A o \in DOMAIN heap \ {Facade} : stringify(heap, o).heap[o] = heap[o]
    /\ FragmentsPure

(* C11, amended: stringify() called on a builder value other than the      *)
(* facade modifies that value and nothing else: its result and             *)
(* currentOrder are emptied, its three flags and every other object, the   *)
(* facade included, are as before; fragment calls are pure functions of    *)
(* the receiver's state and the value.                                     *)
C11_StringifyClearsReceiverOnly ==
    /\ \A o \in DOMAIN heap \ {Facade} :
           stringify(heap, o).heap = [heap EXCEPT ![o] = Cleared(heap[o])]
    /\ FragmentsPure

C11_Witness ==
    \E o, p \in DOMAIN heap \ {Facade} :
        /\ o # p
        /\ heap[o] = [cssSelectorBuilder EXCEPT !.isSelectorHaveId = TRUE]
        /\ ~hist[o].fresh
        /\ heap[p].result = <<"#", "t", "d", ".", "t", "d">>
        /\ heap[p].currentOrder = <<"id", "class">>

(* C12: for any two distinct builder values x and y, x.stringify() changes *)
(* neither the state of y nor the string a later y.stringify() returns,    *)
(* and the two calls leave the same objects behind in either order.        *)
C12_RendersIndependent ==
    \A x \in DOMAIN heap, y \in DOMAIN heap :
        x # y =>
            \A rx \in {stringify(heap, x)}, ry \in {stringify(heap, y)} :
                /\ rx.heap[y] = heap[y]
                /\ stringify(rx.heap, y).ret = ry.ret
                /\ stringify(rx.heap, y).heap = stringify(ry.heap, x).heap

C12_Witness ==
    \E x, y \in DOMAIN heap \ {Facade} :
        /\ x # y
        /\ heap[x] = [cssSelectorBuilder EXCEPT !.isSelectorHaveElement = TRUE]
        /\ ~hist[x].fresh
        /\ heap[y].result = <<"t", "d">>
        /\ heap[y].currentOrder = <<"element">>
        /\ stringify(heap, y).ret = <<"t", "d">>

(* C13: the value combine returns when called on the facade has empty     *)
(* bookkeeping (currentOrder [], the three flags false) whatever the       *)
(* bookkeeping of its operands, so every fragment call on it returns and   *)
(* appends its rendered form to the combined text.                         *)
C13_CombinedChainsUnguarded ==
    \A left \in DOMAIN heap, right \in DOMAIN heap, c \in Combinators :
        \A r \in {combine(heap, Facade, left, c, right)} :
            LET combined == r.heap[r.ret]
            IN  /\ r.err = NoError
                /\ combined = [cssSelectorBuilder EXCEPT !.result = combined.result]
                /\ \A kind \in Kinds, value \in Values :
                       \A q \in {Call(kind, r.heap, r.ret, value)} :
                           /\ q.err = NoError
                           /\ q.heap[q.ret].result
                                  = combined.result \o Form(kind, value)

C13_Witness ==
    \E left, c, e \in DOMAIN heap \ {Facade} :
        /\ heap[left] = [cssSelectorBuilder EXCEPT
                             !.isSelectorHavePseudoElement = TRUE]
        /\ heap[c] = [cssSelectorBuilder EXCEPT
                          !.result = <<":", ":", "t", "d", " ", "+", " ">>]
        /\ heap[e].result = <<":", ":", "t", "d", " ", "+", " ", "t", "d">>
        /\ heap[e].currentOrder = <<"element">>
        /\ ~heap[e].isSelectorHavePseudoElement

(* C14: combine(left, c, right), called on the facade, renders left and   *)
(* then right, each as stringify() does: afterwards both operands have     *)
(* result '' and currentOrder [] and their three flags as before, no other *)
(* existing object has changed, and an operand used again in a later       *)
(* stringify or combine contributes the empty string; when left and right  *)
(* are the same object its text appears on the left only.                  *)
C14_CombineRendersOperands ==
    \A left \in DOMAIN heap, right \in DOMAIN heap, c \in Combinators :
        \A r \in {combine(heap, Facade, left, c, right)} :
            /\ \A o \in DOMAIN heap :
                   r.heap[o] = IF o \in {left, right}
                               THEN Cleared(heap[o]) ELSE heap[o]
            /\ stringify(r.heap, left).ret = << >>
            /\ stringify(r.heap, right).ret = << >>
            /\ \A again \in {combine(r.heap, Facade, left, c, right)} :
                   again.heap[again.ret].result = Space \o c \o Space
            /\ left = right =>
                   r.heap[r.ret].result = heap[left].result \o Space \o c \o Space

C14_Witness ==
    \E left, right, c \in DOMAIN heap \ {Facade} :
        /\ heap[left] = [cssSelectorBuilder EXCEPT !.isSelectorHaveElement = TRUE]
        /\ heap[right] = [cssSelectorBuilder EXCEPT !.isSelectorHaveId = TRUE]
        /\ heap[c].result = <<"t", "d", " ", "+", " ", "#", "t", "d">>
        /\ combine(heap, Facade, left, <<"+">>, right).heap[Len(heap) + 1].result
               = <<" ", "+", " ">>

\* the uniqueness flag of a kind that may occur once
Flag(obj, kind) ==
    CASE kind = "element" -> obj.isSelectorHaveElement
      [] kind = "id" -> obj.isSelectorHaveId
      [] kind = "pseudo-element" -> obj.isSelectorHavePseudoElement

(* C15: stringify() empties result and currentOrder of its receiver and    *)
(* leaves the three flags: a second stringify() on it returns '', a later  *)
(* fragment call on it never throws the order error, and element(), id()   *)
(* or pseudoElement() on it throws the uniqueness error exactly when that  *)
(* kind was added before the render; every other fragment call returns.    *)
C15_RenderKeepsFlags ==
    \A o \in DOMAIN heap :
        \A r \in {stringify(heap, o)} :
            /\ r.heap[o] = Cleared(heap[o])
            /\ stringify(r.heap, o).ret = << >>
            /\ \A kind \in Kinds, value \in Values :
                   LET q == Call(kind, r.heap, o, value)
                       added == IF hist[o].fresh
                                THEN \E i \in 1..Len(hist[o].chain) :
                                         hist[o].chain[i][1] = kind
                                ELSE kind \in Once /\ Flag(heap[o], kind)
                   IN  q.err = IF kind \in Once /\ added
                               THEN UniqueError ELSE NoError

C15_Witness ==
    \E o, e \in DOMAIN heap \ {Facade} :
        /\ heap[o] = [cssSelectorBuilder EXCEPT !.isSelectorHaveId = TRUE]
        /\ ~hist[o].fresh
        /\ id(heap, o, <<"t", "d">>).err = UniqueError
        /\ heap[e].result = <<"t", "d">>
        /\ heap[e].currentOrder = <<"element">>
        /\ heap[e].isSelectorHaveId

====
